---- MODULE Spec2Model ----
(***************************************************************************)
(* payment-service-demo: the incident / runbook state machine of           *)
(* src/app/main.py.                                                        *)
(*                                                                         *)
(* The module-level ServiceState object `state` is shared, without any     *)
(* lock, by the log_generator thread, by the request handlers              *)
(* trigger_chaos, reset and get_state (FastAPI runs `def` endpoints on a   *)
(* thread pool) and by one delayed_runbook thread per accepted             *)
(* trigger_chaos call.                                                     *)
(* Every step below is one read or one write of an attribute of `state`    *)
(* (one attribute load, one attribute store, or one list.append, each of   *)
(* which the interpreter executes without releasing the GIL).              *)
(*                                                                         *)
(* Any thread may take the next step: the interpreter may switch threads   *)
(* between any two steps (at a time.sleep, at the end of a handler, or     *)
(* when the switch interval expires).  The switches from one thread to     *)
(* another are counted and bounded by MaxSwitches in Spec, the system of   *)
(* the writers.  SpecRead adds a client of GET /state to the trigger       *)
(* requests and allows one switch more; SpecAdmin runs the trigger         *)
(* requests and the reset with switches at the blocking points only,       *)
(* however many.                                                           *)
(*                                                                         *)
(* Time is counted in half seconds (time.time() is a float), so that       *)
(* round() is not the identity.  Log entries and runbook steps omit their  *)
(* wall-clock strftime stamps; a payment message keeps its transaction     *)
(* number and drops the random amount.                                     *)
(***************************************************************************)
EXTENDS Integers, Sequences, FiniteSets, TLC

\* ---- bounds of the model ------------------------------------------------
MaxCalls == 2
MaxResets == 1
MaxGen == 1
MaxTime == 2
MaxSwitches == 2
IdleFirings == 47

\* ---- program constants --------------------------------------------------
LogCap == 50
TxnBase == 1000

None == -1
NoMode == "None"
Modes == {"connection_pool", "timeout", "random_crash"}
ModeInputs == {"connection_pool", "timeout"}

Calls == 1..MaxCalls
GenId == MaxCalls + 1
ResetId == MaxCalls + 2
ReadId == MaxCalls + 3
Procs == 1..(MaxCalls + 3)

RUNBOOK_STEPS == <<"detect", "root_cause", "restart", "verify", "notify">>
NumSteps == Len(RUNBOOK_STEPS)

VARIABLES
    status, chaos_mode, started_at, incident_started_at, incident_resolved_at,
    runbook_steps, runbook_running, logs, payment_counter,
    now,        \* time.time(), in half seconds
    pc,         \* per thread: the statement it executes next
    lpc,        \* per thread: its position inside _add_log (0: not inside)
    ltmp,       \* per thread: the slice self.logs[-50:] it is about to store
    req,        \* per trigger_chaos call: req.mode
    res,        \* per trigger_chaos call: what the handler returned
    phase,      \* per run_runbook: the loop index i, counted from 1
    lstr, lnum, \* per thread: a string / a number read from `state` and not yet used
    nGen, nResets,
    cur,        \* the thread that took the last step (0: none yet)
    switches,   \* the switches from one thread to another so far
    budget,     \* the switches a behaviour may make
    rsw,        \* history: the value of switches when reset was entered
    opener,     \* history: the call whose incident is open (0: none)
    snap        \* get_state: the values computed so far for the response

stateVars == <<status, chaos_mode, started_at, incident_started_at,
               incident_resolved_at, runbook_steps, runbook_running, logs,
               payment_counter>>
vars == <<status, chaos_mode, started_at, incident_started_at,
          incident_resolved_at, runbook_steps, runbook_running, logs,
          payment_counter, now, pc, lpc, ltmp, req, res, phase, lstr,
          lnum, nGen, nResets, cur, switches, budget, rsw, opener, snap>>

\* ---- helpers --------------------------------------------------------------
Entry(level, msg, mode, n) == [level |-> level, msg |-> msg, mode |-> mode, n |-> n]

SeedLogs ==
    << Entry("INFO", "started", "-", 0),
       Entry("INFO", "db_connected", "-", 0),
       Entry("INFO", "listening", "-", 0) >>

PaymentEntry(counter) == Entry("INFO", "payment_ok", "-", counter + TxnBase)

\* s[-n:]
LastN(s, n) == IF Len(s) <= n THEN s ELSE SubSeq(s, Len(s) - n + 1, Len(s))

\* round(): half to even, on a count h of half seconds
Round(h) ==
    IF h % 2 = 0 THEN h \div 2
    ELSE IF ((h - 1) \div 2) % 2 = 0 THEN (h - 1) \div 2 ELSE (h + 1) \div 2

\* truthiness of an Optional[float]
Truthy(t) == t # None /\ t # 0

\* lines 203-208: mode_labels.get(req.mode, req.mode)
mode_labels(m) ==
    CASE m = "connection_pool" -> "Connection pool exhausted"
      [] m = "timeout" -> "Downstream timeout"
      [] m = "random_crash" -> "Service panic / crash"
      [] OTHER -> m

\* lines 117-121 (the dash of the timeout message is written in ASCII)
root_cause_of(m) ==
    CASE m = "connection_pool" -> "Connection pool exhausted (100/100)"
      [] m = "timeout" -> "Downstream timeout -- circuit breaker tripped"
      [] m = "random_crash" -> "Nil pointer dereference in payment handler"
      [] OTHER -> "Unknown error"

\* The service has been up and healthy for IdleFirings periods of log_generator
\* when the first request arrives: the logs after k such firings
IdleLogs(k) == LastN(SeedLogs \o [j \in 1..k |-> PaymentEntry(j - 1)], LogCap)

\* a response of get_state of which nothing is computed yet ("" stands for
\* a root_cause of None, as it does for a step without a detail)
NoSnap == [mttr |-> None, incident_elapsed |-> None, root_cause |-> "",
           status |-> "", incident_started_at |-> None,
           incident_resolved_at |-> None]

Boot ==
    /\ status = "healthy"
    /\ chaos_mode = NoMode
    /\ started_at = 1
    /\ incident_started_at = None
    /\ incident_resolved_at = None
    /\ runbook_steps = <<>>
    /\ runbook_running = FALSE
    /\ logs = IdleLogs(IdleFirings)
    /\ payment_counter = IdleFirings
    /\ now = 1
    /\ pc = [p \in Procs |-> "idle"]
    /\ lpc = [p \in Procs |-> 0]
    /\ ltmp = [p \in Procs |-> <<>>]
    /\ req = [i \in Calls |-> NoMode]
    /\ res = [i \in Calls |-> "none"]
    /\ phase = [i \in Calls |-> 0]
    /\ lstr = [p \in Procs |-> ""]
    /\ lnum = [p \in Procs |-> 0]
    /\ nGen = 0
    /\ nResets = 0
    /\ cur = 0
    /\ switches = 0
    /\ rsw = 0
    /\ opener = 0
    /\ snap = NoSnap

Init == Boot /\ budget = MaxSwitches

\* ---- the interpreter's scheduling -----------------------------------------------
\* where a thread blocks: no request in progress, time.sleep, the thread or
\* the request is over
BlockedAt == {"idle", "d_sleep", "r_sleep", "r3_sleep", "done", "dead", "failed"}

Blocked(p) == pc[p] \in BlockedAt /\ lpc[p] = 0

\* the budget of a behaviour whose threads are switched only where they block
Cooperative == 0

\* Thread p takes the next step; a step by another thread than the last one
\* is a switch.  A behaviour makes at most budget switches, or switches at
\* the blocking points only, then as often as it likes.
Run(p) ==
    /\ IF cur \in {0, p} THEN TRUE
       ELSE IF budget = Cooperative THEN Blocked(cur)
       ELSE switches < budget
    /\ switches' = IF cur \in {0, p} \/ budget = Cooperative THEN switches
                   ELSE switches + 1
    /\ cur' = p

\* ---- ServiceState._add_log (lines 39-47) ------------------------------------
\* self.logs.append(entry): the caller's step appends and enters _add_log
AppendLog(p, e) ==
    /\ logs' = Append(logs, e)
    /\ lpc' = [lpc EXCEPT ![p] = 1]

\* mutation: the comparison is off by one
NeedsTrim_OffByOne(l) == Len(l) > LogCap + 1

\* if len(self.logs) > 50:
NeedsTrim(l) == Len(l) > LogCap

add_log_check(p) ==
    /\ lpc[p] = 1
    /\ Run(p)
    /\ lpc' = [lpc EXCEPT ![p] = IF NeedsTrim(logs) THEN 2 ELSE 0]
    /\ UNCHANGED <<stateVars, now, pc, ltmp, req, res, phase, lstr, lnum, nGen, nResets,
                   budget, rsw, opener, snap>>

\* the right-hand side self.logs[-50:]
add_log_slice(p) ==
    /\ lpc[p] = 2
    /\ Run(p)
    /\ ltmp' = [ltmp EXCEPT ![p] = LastN(logs, LogCap)]
    /\ lpc' = [lpc EXCEPT ![p] = 3]
    /\ UNCHANGED <<stateVars, now, pc, req, res, phase, lstr, lnum, nGen, nResets,
                   budget, rsw, opener, snap>>

\* the store self.logs = ...
add_log_store(p) ==
    /\ lpc[p] = 3
    /\ Run(p)
    /\ logs' = ltmp[p]
    /\ ltmp' = [ltmp EXCEPT ![p] = <<>>]
    /\ lpc' = [lpc EXCEPT ![p] = 0]
    /\ UNCHANGED <<status, chaos_mode, started_at, incident_started_at,
                   incident_resolved_at, runbook_steps, runbook_running,
                   payment_counter, now, pc, req, res, phase, lstr, lnum, nGen, nResets,
                   budget, rsw, opener, snap>>

\* a thread is between statements of its own code (not inside _add_log)
At(p, l) == pc[p] = l /\ lpc[p] = 0
Goto(p, l) == pc' = [pc EXCEPT ![p] = l]

\* ---- trigger_chaos (lines 192-216) -----------------------------------------------
\* mutation: the handler refuses only during the restart
TriggerAllowed_WhileUnhealthy(s) == s # "recovering"

\* line 194: the precondition of the handler
TriggerAllowed(s) == s = "healthy"

\* Requests are numbered in their order of arrival.
Arrives(i) == pc[i] = "idle" /\ (i > 1 => pc[i - 1] # "idle")

\* lines 194-195: if state.status != "healthy": return {"error": ...}
trigger_chaos(i) ==
    /\ Arrives(i)
    /\ Run(i)
    /\ \E m \in ModeInputs :
         IF TriggerAllowed(status)
         THEN /\ req' = [req EXCEPT ![i] = m]
              /\ Goto(i, "t_status")
              /\ UNCHANGED res
         ELSE /\ res' = [res EXCEPT ![i] = "error"]
              /\ Goto(i, "done")
              /\ UNCHANGED req
    /\ UNCHANGED <<stateVars, now, lpc, ltmp, phase, lstr, lnum, nGen, nResets,
                   budget, rsw, opener, snap>>

\* line 197
trigger_status(i) ==
    /\ At(i, "t_status")
    /\ Run(i)
    /\ status' = "unhealthy"
    /\ opener' = i
    /\ Goto(i, "t_mode")
    /\ UNCHANGED <<chaos_mode, started_at, incident_started_at, incident_resolved_at,
                   runbook_steps, runbook_running, logs, payment_counter,
                   now, lpc, ltmp, req, res, phase, lstr, lnum, nGen, nResets,
                   budget, rsw, snap>>

\* line 198
trigger_mode(i) ==
    /\ At(i, "t_mode")
    /\ Run(i)
    /\ chaos_mode' = req[i]
    /\ Goto(i, "t_started")
    /\ UNCHANGED <<status, started_at, incident_started_at, incident_resolved_at,
                   runbook_steps, runbook_running, logs, payment_counter,
                   now, lpc, ltmp, req, res, phase, lstr, lnum, nGen, nResets,
                   budget, rsw, opener, snap>>

\* line 199
trigger_started(i) ==
    /\ At(i, "t_started")
    /\ Run(i)
    /\ incident_started_at' = now
    /\ Goto(i, "t_resolved")
    /\ UNCHANGED <<status, chaos_mode, started_at, incident_resolved_at,
                   runbook_steps, runbook_running, logs, payment_counter,
                   now, lpc, ltmp, req, res, phase, lstr, lnum, nGen, nResets,
                   budget, rsw, opener, snap>>

\* line 200
trigger_resolved(i) ==
    /\ At(i, "t_resolved")
    /\ Run(i)
    /\ incident_resolved_at' = None
    /\ Goto(i, "t_steps")
    /\ UNCHANGED <<status, chaos_mode, started_at, incident_started_at,
                   runbook_steps, runbook_running, logs, payment_counter,
                   now, lpc, ltmp, req, res, phase, lstr, lnum, nGen, nResets,
                   budget, rsw, opener, snap>>

\* line 201
trigger_steps(i) ==
    /\ At(i, "t_steps")
    /\ Run(i)
    /\ runbook_steps' = <<>>
    /\ Goto(i, "t_log")
    /\ UNCHANGED <<status, chaos_mode, started_at, incident_started_at,
                   incident_resolved_at, runbook_running, logs, payment_counter,
                   now, lpc, ltmp, req, res, phase, lstr, lnum, nGen, nResets,
                   budget, rsw, opener, snap>>

IncidentEntry(m) == Entry("ERROR", "INCIDENT", mode_labels(m), 0)

\* line 208
trigger_log(i) ==
    /\ At(i, "t_log")
    /\ Run(i)
    /\ AppendLog(i, IncidentEntry(req[i]))
    /\ Goto(i, "t_spawn")
    /\ UNCHANGED <<status, chaos_mode, started_at, incident_started_at,
                   incident_resolved_at, runbook_steps, runbook_running,
                   payment_counter, now, ltmp, req, res, phase, lstr, lnum, nGen, nResets,
                   budget, rsw, opener, snap>>

\* lines 215-216: the delayed_runbook thread starts and the handler returns
trigger_spawn(i) ==
    /\ At(i, "t_spawn")
    /\ Run(i)
    /\ res' = [res EXCEPT ![i] = "ok"]
    /\ Goto(i, "d_sleep")
    /\ UNCHANGED <<stateVars, now, lpc, ltmp, req, phase, lstr, lnum, nGen, nResets,
                   budget, rsw, opener, snap>>

\* ---- delayed_runbook (lines 210-213) ------------------------------------------
\* line 211: time.sleep(req.auto_runbook_delay) is over; how long a sleep lasts
\* is a matter of scheduling, as for every other sleep
delayed_wake(i) ==
    /\ At(i, "d_sleep")
    /\ Run(i)
    /\ Goto(i, "d_check")
    /\ UNCHANGED <<stateVars, now, lpc, ltmp, req, res, phase, lstr, lnum, nGen, nResets,
                   budget, rsw, opener, snap>>

\* line 212, left operand: state.status == "unhealthy"
StillUnhealthy(s) == s = "unhealthy"

delayed_check_status(i) ==
    /\ At(i, "d_check")
    /\ Run(i)
    /\ Goto(i, IF StillUnhealthy(status) THEN "d_check2" ELSE "done")
    /\ UNCHANGED <<stateVars, now, lpc, ltmp, req, res, phase, lstr, lnum, nGen, nResets,
                   budget, rsw, opener, snap>>

\* line 212, right operand: not state.runbook_running
delayed_check_running(i) ==
    /\ At(i, "d_check2")
    /\ Run(i)
    /\ Goto(i, IF ~runbook_running THEN "r_enter" ELSE "done")
    /\ UNCHANGED <<stateVars, now, lpc, ltmp, req, res, phase, lstr, lnum, nGen, nResets,
                   budget, rsw, opener, snap>>

\* ---- run_runbook (lines 101-147) ------------------------------------------------
\* A step dict stays the same object whatever list holds it: `owner` names the
\* run that created it, so that step["status"] = ... reaches it only where it
\* still is in state.runbook_steps.
Step(i, k) == [step |-> RUNBOOK_STEPS[k], status |-> "running", detail |-> "", owner |-> i]

IsStep(s, i, k) == s.owner = i /\ s.step = RUNBOOK_STEPS[k]

SetStatus(steps, i, k) ==
    [j \in 1..Len(steps) |->
        IF IsStep(steps[j], i, k) THEN [steps[j] EXCEPT !.status = "done"] ELSE steps[j]]

SetDetail(steps, i, k, d) ==
    [j \in 1..Len(steps) |->
        IF IsStep(steps[j], i, k) THEN [steps[j] EXCEPT !.detail = d] ELSE steps[j]]

\* line 102
run_enter(i) ==
    /\ At(i, "r_enter")
    /\ Run(i)
    /\ runbook_running' = TRUE
    /\ Goto(i, "r_clear")
    /\ UNCHANGED <<status, chaos_mode, started_at, incident_started_at,
                   incident_resolved_at, runbook_steps, logs, payment_counter,
                   now, lpc, ltmp, req, res, phase, lstr, lnum, nGen, nResets,
                   budget, rsw, opener, snap>>

\* line 103
run_clear(i) ==
    /\ At(i, "r_clear")
    /\ Run(i)
    /\ runbook_steps' = <<>>
    /\ Goto(i, "r_log0")
    /\ UNCHANGED <<status, chaos_mode, started_at, incident_started_at,
                   incident_resolved_at, runbook_running, logs, payment_counter,
                   now, lpc, ltmp, req, res, phase, lstr, lnum, nGen, nResets,
                   budget, rsw, opener, snap>>

\* line 104, and the loop of line 106 starts
run_log0(i) ==
    /\ At(i, "r_log0")
    /\ Run(i)
    /\ AppendLog(i, Entry("INFO", "runbook_triggered", "-", 0))
    /\ phase' = [phase EXCEPT ![i] = 1]
    /\ Goto(i, "r_append")
    /\ UNCHANGED <<status, chaos_mode, started_at, incident_started_at,
                   incident_resolved_at, runbook_steps, runbook_running,
                   payment_counter, now, ltmp, req, res, lstr, lnum, nGen, nResets,
                   budget, rsw, opener, snap>>

\* the branch of lines 110-141 the loop index selects
FirstOfPhase(k) ==
    CASE k = 2 -> "r2_read"
      [] k = 3 -> "r3_recovering"
      [] k = 5 -> "r5_read"
      [] OTHER -> "r_done"

\* lines 107-108
run_append(i) ==
    /\ At(i, "r_append")
    /\ Run(i)
    /\ runbook_steps' = Append(runbook_steps, Step(i, phase[i]))
    /\ Goto(i, "r_sleep")
    /\ UNCHANGED <<status, chaos_mode, started_at, incident_started_at,
                   incident_resolved_at, runbook_running, logs, payment_counter,
                   now, lpc, ltmp, req, res, phase, lstr, lnum, nGen, nResets,
                   budget, rsw, opener, snap>>

\* lines 111, 116, 127, 137, 142: time.sleep(...) is over
run_sleep(i) ==
    /\ At(i, "r_sleep")
    /\ Run(i)
    /\ Goto(i, FirstOfPhase(phase[i]))
    /\ UNCHANGED <<stateVars, now, lpc, ltmp, req, res, phase, lstr, lnum, nGen, nResets,
                   budget, rsw, opener, snap>>

\* lines 117-121
run2_read(i) ==
    /\ At(i, "r2_read")
    /\ Run(i)
    /\ lstr' = [lstr EXCEPT ![i] = root_cause_of(chaos_mode)]
    /\ Goto(i, "r_done")
    /\ UNCHANGED <<stateVars, now, lpc, ltmp, req, res, phase, lnum, nGen, nResets,
                   budget, rsw, opener, snap>>

\* line 128
run3_recovering(i) ==
    /\ At(i, "r3_recovering")
    /\ Run(i)
    /\ status' = "recovering"
    /\ Goto(i, "r3_log1")
    /\ UNCHANGED <<chaos_mode, started_at, incident_started_at, incident_resolved_at,
                   runbook_steps, runbook_running, logs, payment_counter,
                   now, lpc, ltmp, req, res, phase, lstr, lnum, nGen, nResets,
                   budget, rsw, opener, snap>>

\* line 129
run3_log1(i) ==
    /\ At(i, "r3_log1")
    /\ Run(i)
    /\ AppendLog(i, Entry("INFO", "restarting", "-", 0))
    /\ Goto(i, "r3_sleep")
    /\ UNCHANGED <<status, chaos_mode, started_at, incident_started_at,
                   incident_resolved_at, runbook_steps, runbook_running,
                   payment_counter, now, ltmp, req, res, phase, lstr, lnum,
                   nGen, nResets,
                   budget, rsw, opener, snap>>

\* line 130: time.sleep(...) is over
run3_sleep(i) ==
    /\ At(i, "r3_sleep")
    /\ Run(i)
    /\ Goto(i, "r3_healthy")
    /\ UNCHANGED <<stateVars, now, lpc, ltmp, req, res, phase, lstr, lnum, nGen, nResets,
                   budget, rsw, opener, snap>>

\* line 131
run3_healthy(i) ==
    /\ At(i, "r3_healthy")
    /\ Run(i)
    /\ status' = "healthy"
    /\ opener' = 0
    /\ Goto(i, "r3_resolved")
    /\ UNCHANGED <<chaos_mode, started_at, incident_started_at, incident_resolved_at,
                   runbook_steps, runbook_running, logs, payment_counter,
                   now, lpc, ltmp, req, res, phase, lstr, lnum, nGen, nResets,
                   budget, rsw, snap>>

\* line 132
run3_resolved(i) ==
    /\ At(i, "r3_resolved")
    /\ Run(i)
    /\ incident_resolved_at' = now
    /\ Goto(i, "r_done")
    /\ UNCHANGED <<status, chaos_mode, started_at, incident_started_at,
                   runbook_steps, runbook_running, logs, payment_counter,
                   now, lpc, ltmp, req, res, phase, lstr, lnum, nGen, nResets,
                   budget, rsw, opener, snap>>

\* line 143, left operand: state.incident_resolved_at
run5_read(i) ==
    /\ At(i, "r5_read")
    /\ Run(i)
    /\ lnum' = [lnum EXCEPT ![i] = incident_resolved_at]
    /\ Goto(i, "r5_mttr")
    /\ UNCHANGED <<stateVars, now, lpc, ltmp, req, res, phase, lstr, nGen, nResets,
                   budget, rsw, opener, snap>>

\* float - float is defined, None in either operand raises TypeError
CanSubtract(a, b) == a # None /\ b # None

\* line 143: the subtraction and round(); a TypeError ends the thread
run5_mttr(i) ==
    /\ At(i, "r5_mttr")
    /\ Run(i)
    /\ IF CanSubtract(lnum[i], incident_started_at)
       THEN /\ lnum' = [lnum EXCEPT ![i] = Round(lnum[i] - incident_started_at)]
            /\ Goto(i, "r_done")
       ELSE /\ lnum' = [lnum EXCEPT ![i] = 0]
            /\ Goto(i, "dead")
    /\ UNCHANGED <<stateVars, now, lpc, ltmp, req, res, phase, lstr, nGen, nResets,
                   budget, rsw, opener, snap>>

\* what follows step["status"] = "done" in the branch of phase k
AfterDone(k) ==
    CASE k = 2 -> "r2_detail"
      [] k = 5 -> "r5_fmt"
      [] OTHER -> "r_log"

\* lines 112, 122, 133, 138, 144: step["status"] = "done"
run_done(i) ==
    /\ At(i, "r_done")
    /\ Run(i)
    /\ runbook_steps' = SetStatus(runbook_steps, i, phase[i])
    /\ Goto(i, AfterDone(phase[i]))
    /\ UNCHANGED <<status, chaos_mode, started_at, incident_started_at,
                   incident_resolved_at, runbook_running, logs, payment_counter,
                   now, lpc, ltmp, req, res, phase, lstr, lnum, nGen, nResets,
                   budget, rsw, opener, snap>>

\* line 123
run2_detail(i) ==
    /\ At(i, "r2_detail")
    /\ Run(i)
    /\ runbook_steps' = SetDetail(runbook_steps, i, phase[i], lstr[i])
    /\ Goto(i, "r_log")
    /\ UNCHANGED <<status, chaos_mode, started_at, incident_started_at,
                   incident_resolved_at, runbook_running, logs, payment_counter,
                   now, lpc, ltmp, req, res, phase, lstr, lnum, nGen, nResets,
                   budget, rsw, opener, snap>>

\* line 145: the f-string reads state.chaos_mode
run5_fmt(i) ==
    /\ At(i, "r5_fmt")
    /\ Run(i)
    /\ lstr' = [lstr EXCEPT ![i] = chaos_mode]
    /\ Goto(i, "r_log")
    /\ UNCHANGED <<stateVars, now, lpc, ltmp, req, res, phase, lnum, nGen, nResets,
                   budget, rsw, opener, snap>>

\* the message of lines 113, 124, 134, 139, 145
PhaseEntry(k, s, n) ==
    CASE k = 1 -> Entry("INFO", "runbook_1_of_5", "-", 0)
      [] k = 2 -> Entry("INFO", "root_cause_identified", s, 0)
      [] k = 3 -> Entry("INFO", "restarted_ok", "-", 0)
      [] k = 4 -> Entry("INFO", "recovery_verified", "-", 0)
      [] OTHER -> Entry("INFO", "incident_report", s, n)

\* lines 113, 124, 134, 139, 145: state.add_log(...), then the next iteration
run_log(i) ==
    /\ At(i, "r_log")
    /\ Run(i)
    /\ AppendLog(i, PhaseEntry(phase[i], lstr[i], lnum[i]))
    /\ lstr' = [lstr EXCEPT ![i] = ""]
    /\ lnum' = [lnum EXCEPT ![i] = 0]
    /\ IF phase[i] < NumSteps
       THEN /\ phase' = [phase EXCEPT ![i] = phase[i] + 1]
            /\ Goto(i, "r_append")
       ELSE /\ UNCHANGED phase
            /\ Goto(i, "r_exit")
    /\ UNCHANGED <<status, chaos_mode, started_at, incident_started_at,
                   incident_resolved_at, runbook_steps, runbook_running,
                   payment_counter, now, ltmp, req, res, nGen, nResets,
                   budget, rsw, opener, snap>>

\* line 147
run_exit(i) ==
    /\ At(i, "r_exit")
    /\ Run(i)
    /\ runbook_running' = FALSE
    /\ Goto(i, "done")
    /\ UNCHANGED <<status, chaos_mode, started_at, incident_started_at,
                   incident_resolved_at, runbook_steps, logs, payment_counter,
                   now, lpc, ltmp, req, res, phase, lstr, lnum, nGen, nResets,
                   budget, rsw, opener, snap>>

\* ---- ServiceState.reset, called by the reset handler (lines 25-37, 218-221) -----
\* line 26; the request arrives
reset_status ==
    /\ At(ResetId, "idle")
    /\ Run(ResetId)
    /\ nResets < MaxResets
    /\ nResets' = nResets + 1
    /\ status' = "healthy"
    /\ opener' = 0
    /\ rsw' = switches'
    /\ Goto(ResetId, "x_mode")
    /\ UNCHANGED <<chaos_mode, started_at, incident_started_at, incident_resolved_at,
                   runbook_steps, runbook_running, logs, payment_counter, now, lpc,
                   ltmp, req, res, phase, lstr, lnum, nGen,
                   budget, snap>>

\* line 27
reset_mode ==
    /\ At(ResetId, "x_mode")
    /\ Run(ResetId)
    /\ chaos_mode' = NoMode
    /\ Goto(ResetId, "x_started")
    /\ UNCHANGED <<status, started_at, incident_started_at, incident_resolved_at,
                   runbook_steps, runbook_running, logs, payment_counter, now, lpc,
                   ltmp, req, res, phase, lstr, lnum, nGen, nResets,
                   budget, rsw, opener, snap>>

\* line 28
reset_started ==
    /\ At(ResetId, "x_started")
    /\ Run(ResetId)
    /\ started_at' = now
    /\ Goto(ResetId, "x_inc")
    /\ UNCHANGED <<status, chaos_mode, incident_started_at, incident_resolved_at,
                   runbook_steps, runbook_running, logs, payment_counter, now, lpc,
                   ltmp, req, res, phase, lstr, lnum, nGen, nResets,
                   budget, rsw, opener, snap>>

\* line 29
reset_incident_started ==
    /\ At(ResetId, "x_inc")
    /\ Run(ResetId)
    /\ incident_started_at' = None
    /\ Goto(ResetId, "x_res")
    /\ UNCHANGED <<status, chaos_mode, started_at, incident_resolved_at, runbook_steps,
                   runbook_running, logs, payment_counter, now, lpc, ltmp, req, res,
                   phase, lstr, lnum, nGen, nResets,
                   budget, rsw, opener, snap>>

\* line 30
reset_incident_resolved ==
    /\ At(ResetId, "x_res")
    /\ Run(ResetId)
    /\ incident_resolved_at' = None
    /\ Goto(ResetId, "x_steps")
    /\ UNCHANGED <<status, chaos_mode, started_at, incident_started_at, runbook_steps,
                   runbook_running, logs, payment_counter, now, lpc, ltmp, req, res,
                   phase, lstr, lnum, nGen, nResets,
                   budget, rsw, opener, snap>>

\* line 31
reset_steps ==
    /\ At(ResetId, "x_steps")
    /\ Run(ResetId)
    /\ runbook_steps' = <<>>
    /\ Goto(ResetId, "x_running")
    /\ UNCHANGED <<status, chaos_mode, started_at, incident_started_at,
                   incident_resolved_at, runbook_running, logs, payment_counter, now,
                   lpc, ltmp, req, res, phase, lstr, lnum, nGen, nResets,
                   budget, rsw, opener, snap>>

\* line 32
reset_running ==
    /\ At(ResetId, "x_running")
    /\ Run(ResetId)
    /\ runbook_running' = FALSE
    /\ Goto(ResetId, "x_logs")
    /\ UNCHANGED <<status, chaos_mode, started_at, incident_started_at,
                   incident_resolved_at, runbook_steps, logs, payment_counter, now,
                   lpc, ltmp, req, res, phase, lstr, lnum, nGen, nResets,
                   budget, rsw, opener, snap>>

\* line 33
reset_logs ==
    /\ At(ResetId, "x_logs")
    /\ Run(ResetId)
    /\ logs' = <<>>
    /\ Goto(ResetId, "x_counter")
    /\ UNCHANGED <<status, chaos_mode, started_at, incident_started_at,
                   incident_resolved_at, runbook_steps, runbook_running,
                   payment_counter, now, lpc, ltmp, req, res, phase, lstr, lnum,
                   nGen, nResets,
                   budget, rsw, opener, snap>>

\* mutation: the counter is left as it was
reset_counter_Kept ==
    /\ At(ResetId, "x_counter")
    /\ Run(ResetId)
    /\ Goto(ResetId, "x_seed1")
    /\ UNCHANGED <<stateVars, now, lpc, ltmp, req, res, phase, lstr, lnum, nGen,
                   nResets, budget, rsw, opener, snap>>

\* line 34
reset_counter ==
    /\ At(ResetId, "x_counter")
    /\ Run(ResetId)
    /\ payment_counter' = 0
    /\ Goto(ResetId, "x_seed1")
    /\ UNCHANGED <<status, chaos_mode, started_at, incident_started_at,
                   incident_resolved_at, runbook_steps, runbook_running, logs, now,
                   lpc, ltmp, req, res, phase, lstr, lnum, nGen, nResets,
                   budget, rsw, opener, snap>>

\* lines 35-37: the k-th seed line; after the third the handler returns
reset_seed(k) ==
    /\ At(ResetId, IF k = 1 THEN "x_seed1" ELSE IF k = 2 THEN "x_seed2" ELSE "x_seed3")
    /\ Run(ResetId)
    /\ AppendLog(ResetId, SeedLogs[k])
    /\ Goto(ResetId, IF k = 1 THEN "x_seed2" ELSE IF k = 2 THEN "x_seed3" ELSE "idle")
    /\ UNCHANGED <<status, chaos_mode, started_at, incident_started_at,
                   incident_resolved_at, runbook_steps, runbook_running,
                   payment_counter, now, ltmp, req, res, phase, lstr, lnum, nGen,
                   nResets,
                   budget, rsw, opener, snap>>

\* ---- log_generator (lines 56-87) ----------------------------------------------------
\* lines 59-60: the sleep ends; if state.status == "healthy"
gen_wake ==
    /\ At(GenId, "idle")
    /\ Run(GenId)
    /\ nGen < MaxGen
    /\ nGen' = nGen + 1
    /\ Goto(GenId, IF status = "healthy" THEN "g_fmt" ELSE "g_elif")
    /\ UNCHANGED <<status, chaos_mode, started_at, incident_started_at,
                   incident_resolved_at, runbook_steps, runbook_running, logs,
                   payment_counter, now, lpc, ltmp, req, res, phase, lstr, lnum,
                   nResets,
                   budget, rsw, opener, snap>>

\* line 64: elif state.status == "unhealthy"
gen_elif ==
    /\ At(GenId, "g_elif")
    /\ Run(GenId)
    /\ Goto(GenId, IF status = "unhealthy" THEN "g_mode1" ELSE "idle")
    /\ UNCHANGED <<status, chaos_mode, started_at, incident_started_at,
                   incident_resolved_at, runbook_steps, runbook_running, logs,
                   payment_counter, now, lpc, ltmp, req, res, phase, lstr, lnum,
                   nGen, nResets,
                   budget, rsw, opener, snap>>

\* line 62: the f-string reads state.payment_counter
gen_fmt ==
    /\ At(GenId, "g_fmt")
    /\ Run(GenId)
    /\ lnum' = [lnum EXCEPT ![GenId] = payment_counter]
    /\ Goto(GenId, "g_log")
    /\ UNCHANGED <<status, chaos_mode, started_at, incident_started_at,
                   incident_resolved_at, runbook_steps, runbook_running, logs,
                   payment_counter, now, lpc, ltmp, req, res, phase, lstr, nGen,
                   nResets,
                   budget, rsw, opener, snap>>

\* line 62: state.add_log("INFO", ...)
gen_log ==
    /\ At(GenId, "g_log")
    /\ Run(GenId)
    /\ AppendLog(GenId, PaymentEntry(lnum[GenId]))
    /\ Goto(GenId, "g_inc")
    /\ UNCHANGED <<status, chaos_mode, started_at, incident_started_at,
                   incident_resolved_at, runbook_steps, runbook_running,
                   payment_counter, now, ltmp, req, res, phase, lstr, lnum, nGen,
                   nResets,
                   budget, rsw, opener, snap>>

\* line 63: state.payment_counter += 1 loads the attribute ...
gen_inc_load ==
    /\ At(GenId, "g_inc")
    /\ Run(GenId)
    /\ lnum' = [lnum EXCEPT ![GenId] = payment_counter]
    /\ Goto(GenId, "g_inc2")
    /\ UNCHANGED <<status, chaos_mode, started_at, incident_started_at,
                   incident_resolved_at, runbook_steps, runbook_running, logs,
                   payment_counter, now, lpc, ltmp, req, res, phase, lstr, nGen,
                   nResets,
                   budget, rsw, opener, snap>>

\* ... and stores the sum
gen_inc_store ==
    /\ At(GenId, "g_inc2")
    /\ Run(GenId)
    /\ payment_counter' = lnum[GenId] + 1
    /\ lnum' = [lnum EXCEPT ![GenId] = 0]
    /\ Goto(GenId, "idle")
    /\ UNCHANGED <<status, chaos_mode, started_at, incident_started_at,
                   incident_resolved_at, runbook_steps, runbook_running, logs, now,
                   lpc, ltmp, req, res, phase, lstr, nGen, nResets,
                   budget, rsw, opener, snap>>

\* line 65: if state.chaos_mode == "connection_pool"
gen_mode1 ==
    /\ At(GenId, "g_mode1")
    /\ Run(GenId)
    /\ IF chaos_mode = "connection_pool"
       THEN /\ lstr' = [lstr EXCEPT ![GenId] = "connection_pool"]
            /\ Goto(GenId, "g_err")
       ELSE /\ UNCHANGED lstr
            /\ Goto(GenId, "g_mode2")
    /\ UNCHANGED <<status, chaos_mode, started_at, incident_started_at,
                   incident_resolved_at, runbook_steps, runbook_running, logs,
                   payment_counter, now, lpc, ltmp, req, res, phase, lnum, nGen,
                   nResets,
                   budget, rsw, opener, snap>>

\* lines 73, 80: elif state.chaos_mode == "timeout" ... else
gen_mode2 ==
    /\ At(GenId, "g_mode2")
    /\ Run(GenId)
    /\ lstr' = [lstr EXCEPT ![GenId] = IF chaos_mode = "timeout" THEN "timeout" ELSE "random_crash"]
    /\ Goto(GenId, "g_err")
    /\ UNCHANGED <<status, chaos_mode, started_at, incident_started_at,
                   incident_resolved_at, runbook_steps, runbook_running, logs,
                   payment_counter, now, lpc, ltmp, req, res, phase, lnum, nGen,
                   nResets,
                   budget, rsw, opener, snap>>

\* line 87: one message of the chosen catalog, leveled ERROR
CatalogEntry(c) == Entry("ERROR", "catalog", c, 0)

gen_err ==
    /\ At(GenId, "g_err")
    /\ Run(GenId)
    /\ AppendLog(GenId, CatalogEntry(lstr[GenId]))
    /\ lstr' = [lstr EXCEPT ![GenId] = ""]
    /\ Goto(GenId, "idle")
    /\ UNCHANGED <<status, chaos_mode, started_at, incident_started_at,
                   incident_resolved_at, runbook_steps, runbook_running,
                   payment_counter, now, ltmp, req, res, phase, lnum, nGen,
                   nResets,
                   budget, rsw, opener, snap>>

\* ---- get_state (lines 159-186) -------------------------------------------------
\* One step per read of an attribute of `state`.  The handler serves one
\* request; its thread id is ReadId.
ReadGoto(l) == pc' = [pc EXCEPT ![ReadId] = l]

\* lines 161-162: mttr = None; the left operand of `and`
get_state ==
    /\ At(ReadId, "idle")
    /\ Run(ReadId)
    /\ snap' = NoSnap
    /\ ReadGoto(IF Truthy(incident_resolved_at) THEN "s_and1" ELSE "s_if2")
    /\ UNCHANGED <<stateVars, now, lpc, ltmp, req, res, phase, lstr, lnum, nGen,
                   nResets, budget, rsw, opener>>

\* line 162: the right operand of `and`
read_and1 ==
    /\ At(ReadId, "s_and1")
    /\ Run(ReadId)
    /\ ReadGoto(IF Truthy(incident_started_at) THEN "s_sub1" ELSE "s_if2")
    /\ UNCHANGED <<stateVars, now, lpc, ltmp, req, res, phase, lstr, lnum, nGen,
                   nResets, budget, rsw, opener, snap>>

\* line 163: the minuend state.incident_resolved_at, read again
read_sub1 ==
    /\ At(ReadId, "s_sub1")
    /\ Run(ReadId)
    /\ lnum' = [lnum EXCEPT ![ReadId] = incident_resolved_at]
    /\ ReadGoto("s_mttr")
    /\ UNCHANGED <<stateVars, now, lpc, ltmp, req, res, phase, lstr, nGen,
                   nResets, budget, rsw, opener, snap>>

\* line 163: the subtrahend, read again, and round(); None as an operand
\* raises TypeError and the request fails
read_mttr ==
    /\ At(ReadId, "s_mttr")
    /\ Run(ReadId)
    /\ IF lnum[ReadId] # None /\ incident_started_at # None
       THEN /\ snap' = [snap EXCEPT !.mttr = Round(lnum[ReadId] - incident_started_at)]
            /\ ReadGoto("s_if2")
       ELSE /\ UNCHANGED snap
            /\ ReadGoto("failed")
    /\ lnum' = [lnum EXCEPT ![ReadId] = 0]
    /\ UNCHANGED <<stateVars, now, lpc, ltmp, req, res, phase, lstr, nGen,
                   nResets, budget, rsw, opener>>

\* lines 165-166: incident_elapsed = None; the left operand of `and`
read_if2 ==
    /\ At(ReadId, "s_if2")
    /\ Run(ReadId)
    /\ ReadGoto(IF Truthy(incident_started_at) THEN "s_and2" ELSE "s_cause")
    /\ UNCHANGED <<stateVars, now, lpc, ltmp, req, res, phase, lstr, lnum, nGen,
                   nResets, budget, rsw, opener, snap>>

\* line 166: not state.incident_resolved_at
read_and2 ==
    /\ At(ReadId, "s_and2")
    /\ Run(ReadId)
    /\ ReadGoto(IF ~Truthy(incident_resolved_at) THEN "s_elapsed" ELSE "s_cause")
    /\ UNCHANGED <<stateVars, now, lpc, ltmp, req, res, phase, lstr, lnum, nGen,
                   nResets, budget, rsw, opener, snap>>

\* line 167: round(time.time() - state.incident_started_at), the attribute
\* read again
read_elapsed ==
    /\ At(ReadId, "s_elapsed")
    /\ Run(ReadId)
    /\ IF incident_started_at # None
       THEN /\ snap' = [snap EXCEPT !.incident_elapsed = Round(now - incident_started_at)]
            /\ ReadGoto("s_cause")
       ELSE /\ UNCHANGED snap
            /\ ReadGoto("failed")
    /\ UNCHANGED <<stateVars, now, lpc, ltmp, req, res, phase, lstr, lnum, nGen,
                   nResets, budget, rsw, opener>>

\* lines 169-172: the detail of the last step that has one ("": none)
root_cause_in(steps) ==
    LET I == {k \in 1..Len(steps) : steps[k].detail # ""}
    IN  IF I = {} THEN ""
        ELSE steps[CHOOSE k \in I : \A j \in I : j <= k].detail

\* lines 169-172, the loop over the list that state.runbook_steps names now
read_cause ==
    /\ At(ReadId, "s_cause")
    /\ Run(ReadId)
    /\ snap' = [snap EXCEPT !.root_cause = root_cause_in(runbook_steps)]
    /\ ReadGoto("s_return")
    /\ UNCHANGED <<stateVars, now, lpc, ltmp, req, res, phase, lstr, lnum, nGen,
                   nResets, budget, rsw, opener>>

\* lines 174-186: the response, its attributes read once more
read_return ==
    /\ At(ReadId, "s_return")
    /\ Run(ReadId)
    /\ snap' = [snap EXCEPT !.status = status,
                            !.incident_started_at = incident_started_at,
                            !.incident_resolved_at = incident_resolved_at]
    /\ ReadGoto("done")
    /\ UNCHANGED <<stateVars, now, lpc, ltmp, req, res, phase, lstr, lnum, nGen,
                   nResets, budget, rsw, opener>>

\* ---- time.time() -------------------------------------------------------------
\* Half a second passes.  A thread runs from one blocking point to the next
\* in far less than that, so the clock advances while the thread that ran
\* last is blocked.
Tick ==
    /\ now < MaxTime
    /\ cur # 0 => Blocked(cur)
    /\ now' = now + 1
    /\ UNCHANGED <<stateVars, pc, lpc, ltmp, req, res, phase, lstr, lnum,
                   nGen, nResets, cur, switches,
                   budget, rsw, opener, snap>>

\* ---- the threads ------------------------------------------------------------------
CallStep(i) ==
    \/ trigger_chaos(i) \/ trigger_status(i) \/ trigger_mode(i)
    \/ trigger_started(i) \/ trigger_resolved(i) \/ trigger_steps(i)
    \/ trigger_log(i) \/ trigger_spawn(i)
    \/ delayed_wake(i) \/ delayed_check_status(i) \/ delayed_check_running(i)
    \/ run_enter(i) \/ run_clear(i) \/ run_log0(i) \/ run_append(i) \/ run_sleep(i)
    \/ run2_read(i) \/ run3_recovering(i) \/ run3_log1(i) \/ run3_sleep(i)
    \/ run3_healthy(i) \/ run3_resolved(i) \/ run5_read(i) \/ run5_mttr(i)
    \/ run_done(i) \/ run2_detail(i) \/ run5_fmt(i) \/ run_log(i) \/ run_exit(i)

ResetStep ==
    \/ reset_status \/ reset_mode \/ reset_started \/ reset_incident_started
    \/ reset_incident_resolved \/ reset_steps \/ reset_running \/ reset_logs
    \/ reset_counter
    \/ \E k \in 1..3 : reset_seed(k)

GenStep ==
    \/ gen_wake \/ gen_elif \/ gen_fmt \/ gen_log \/ gen_inc_load \/ gen_inc_store
    \/ gen_mode1 \/ gen_mode2 \/ gen_err

AddLogStep(p) == add_log_check(p) \/ add_log_slice(p) \/ add_log_store(p)

Next ==
    \/ \E i \in Calls : CallStep(i)
    \/ ResetStep
    \/ GenStep
    \/ \E p \in Procs : AddLogStep(p)
    \/ Tick

Spec == Init /\ [][Next]_vars

\* ---- narrower systems, one switch deeper ------------------------------------
InitDeep == Boot /\ budget = MaxSwitches + 1

\* The trigger requests with a client polling GET /state.
ReadStep ==
    \/ get_state \/ read_and1 \/ read_sub1 \/ read_mttr \/ read_if2 \/ read_and2
    \/ read_elapsed \/ read_cause \/ read_return

NextRead ==
    \/ \E i \in Calls : CallStep(i)
    \/ ReadStep
    \/ \E p \in Procs : AddLogStep(p)
    \/ Tick

SpecRead == InitDeep /\ [][NextRead]_vars

\* The trigger requests and the reset, each handler and each stretch of a
\* thread between two sleeps running without interruption.
NextAdmin ==
    \/ \E i \in Calls : CallStep(i)
    \/ ResetStep
    \/ \E p \in Procs : AddLogStep(p)
    \/ Tick

InitCooperative == Boot /\ budget = Cooperative

SpecAdmin == InitCooperative /\ [][NextAdmin]_vars

TypeOK ==
    /\ status \in {"healthy", "unhealthy", "recovering"}
    /\ chaos_mode \in Modes \cup {NoMode}
    /\ runbook_running \in BOOLEAN
    /\ switches \in 0..budget
    /\ opener \in {0} \cup Calls
    /\ rsw \in 0..budget

\* ---- properties ----------------------------------------------------------------
\* an execution of run_runbook that has run line 102 and has neither reached
\* the end of line 147 nor died
RunbookPCs ==
    {"r_clear", "r_log0", "r_append", "r_sleep", "r2_read", "r3_recovering",
     "r3_log1", "r3_sleep", "r3_healthy", "r3_resolved", "r5_read", "r5_mttr",
     "r_done", "r2_detail", "r5_fmt", "r_log", "r_exit"}

Active(i) == pc[i] \in RunbookPCs

\* the run of call i went through line 147
Completed(i) == pc[i] = "done" /\ phase[i] = NumSteps

\* thread p has appended its entry and not yet left _add_log
InAddLog(p) == lpc[p] # 0

\* C1: at most one execution of run_runbook is active at any time.
C1_AtMostOneRunbook == Cardinality({i \in Calls : Active(i)}) <= 1

\* C2: a trigger_chaos call that finds status not healthy returns the error,
\* changes no field of the state and never starts a delayed_runbook thread.
C2_RejectedTriggerChangesNothing ==
    [][\A i \in Calls :
          (Arrives(i) /\ status # "healthy" /\ pc'[i] # pc[i])
              => /\ UNCHANGED stateVars
                 /\ res'[i] = "error"
                 /\ pc'[i] = "done"]_vars

C2_Witness ==
    \E i \in Calls : res[i] = "error" /\ pc[i] = "done" /\ status = "unhealthy"

\* the state trigger_chaos(mode) is to leave behind
TriggerPost(i) ==
    /\ res[i] = "ok"
    /\ status = "unhealthy"
    /\ chaos_mode = req[i]
    /\ incident_started_at # None
    /\ incident_resolved_at = None
    /\ runbook_steps = <<>>
    /\ \E j \in 1..Len(logs) : logs[j] = IncidentEntry(req[i])

\* C3: when an accepted trigger_chaos(mode) returns (it took the last step and
\* its thread has not run yet), status is unhealthy, chaos_mode is mode, the
\* incident is open and unresolved, runbook_steps is empty and the incident's
\* ERROR entry is in the logs.
C3_TriggerPostcondition ==
    \A i \in Calls : (pc[i] = "d_sleep" /\ cur = i) => TriggerPost(i)

\* C4: without a reset, once every accepted trigger's thread has ended and no
\* request is in progress, the incident has been resolved (otherwise nothing
\* is left that could ever restore health).
C4_RecoveredWhenAllThreadsEnded ==
    ( /\ nResets = 0
      /\ \E i \in Calls : res[i] = "ok"
      /\ \A i \in Calls : pc[i] \in {"idle", "done", "dead"} )
        => (status = "healthy" /\ incident_resolved_at # None)

\* C5: when a run of run_runbook executes line 147, status is healthy.
C5_HealthyAtCompletion ==
    [][\A i \in Calls :
          (pc[i] = "r_exit" /\ pc'[i] = "done") => status' = "healthy"]_vars

AllStepsDone(steps) ==
    /\ Len(steps) = NumSteps
    /\ \A k \in 1..NumSteps :
          steps[k].step = RUNBOOK_STEPS[k] /\ steps[k].status = "done"

\* C6: when a run of run_runbook executes line 147, runbook_steps holds the
\* five steps in phase order, all done.
C6_FiveStepsAtCompletion ==
    [][\A i \in Calls :
          (pc[i] = "r_exit" /\ pc'[i] = "done") => AllStepsDone(runbook_steps')]_vars

\* C7: incident_resolved_at is never set while incident_started_at is unset.
C7_ResolvedImpliesStarted ==
    incident_resolved_at # None => incident_started_at # None

\* C8: whenever both are set, incident_resolved_at >= incident_started_at.
C8_ResolvedNotBeforeStarted ==
    (incident_started_at # None /\ incident_resolved_at # None)
        => incident_resolved_at >= incident_started_at

\* C9: once a runbook has completed and status is healthy (no thread being in
\* the middle of anything), chaos_mode is unset.
C9_ModeUnsetAfterRecovery ==
    ( /\ \E i \in Calls : Completed(i)
      /\ status = "healthy"
      /\ \A p \in Procs : Blocked(p) )
        => chaos_mode = NoMode

\* C10 as stated: the length of logs never exceeds 50, in any state.
C10_LengthNeverExceedsCap == Len(logs) <= LogCap

\* C10 as amended: the length of logs exceeds 50 by at most the number of
\* appends still inside _add_log; it is at most 50 whenever none is.
C10_LengthBoundedOutsideAppend ==
    Len(logs) <= LogCap + Cardinality({p \in Procs : InAddLog(p)})

C10_Witness ==
    /\ Len(logs) = LogCap + 2
    /\ Cardinality({p \in Procs : InAddLog(p)}) = 2

\* C11: since the last reset no appended entry is lost while it is among the
\* newest 50 and none is reordered: logs only ever changes by an append at
\* its end, by dropping the oldest entries beyond the newest 50, or by the
\* clearing of a reset.
C11_NoAppendLostOrReordered ==
    [][logs' # logs =>
          \/ Len(logs') = Len(logs) + 1 /\ SubSeq(logs', 1, Len(logs)) = logs
          \/ Len(logs) > LogCap /\ logs' = LastN(logs, LogCap)
          \/ At(ResetId, "x_logs") /\ logs' = <<>>]_vars

\* lines 26-37 but for started_at: the state a reset is to leave behind
StartupDefaults ==
    /\ status = "healthy"
    /\ chaos_mode = NoMode
    /\ incident_started_at = None
    /\ incident_resolved_at = None
    /\ runbook_steps = <<>>
    /\ runbook_running = FALSE
    /\ payment_counter = 0
    /\ logs = SeedLogs

\* the reset handler has just returned: it took the last step
ResetReturned == nResets > 0 /\ At(ResetId, "idle") /\ cur = ResetId

\* C12: when reset returns and no other thread took a step since it was
\* entered, the state is the startup defaults with exactly the three seed
\* entries in logs, whatever the state was before.
C12_ResetRestoresDefaults ==
    (ResetReturned /\ switches = rsw) => StartupDefaults

C12_Witness ==
    /\ ResetReturned
    /\ switches = rsw
    /\ \E i \in Calls : res[i] = "ok" /\ phase[i] >= 2

\* C13: when reset returns the state is the startup defaults, also when the
\* other threads took steps while it ran.
C13_ResetAtomic == ResetReturned => StartupDefaults

\* C14: when a run of run_runbook for the incident of mode m executes line
\* 147, the root_cause GET /state computes is the string mapped from m and
\* status is healthy.
C14_RootCauseAtCompletion ==
    [][\A i \in Calls :
          (At(i, "r_exit") /\ pc'[i] = "done")
              => /\ root_cause_in(runbook_steps') = root_cause_of(req[i])
                 /\ status' = "healthy"]_vars

\* C15: GET /state never fails, and no response carries both an mttr and an
\* incident_elapsed.
C15_SnapshotConsistent ==
    /\ pc[ReadId] # "failed"
    /\ ~(snap.mttr # None /\ snap.incident_elapsed # None)

\* C16: whenever no execution of run_runbook is active, runbook_running is
\* false.
C16_RunningOnlyWhileActive ==
    (\A i \in Calls : ~Active(i)) => ~runbook_running

\* C17: no execution of run_runbook fails in any phase: none dies of the
\* TypeError of line 143.
C17_RunbookNeverFails == \A i \in Calls : pc[i] # "dead"

\* C18: log_generator appends an ERROR entry of a catalog only in a state
\* where status is unhealthy and chaos_mode names that catalog.
C18_ErrorOnlyWhileUnhealthy ==
    [][(At(GenId, "g_err") /\ pc'[GenId] = "idle")
          => (status = "unhealthy" /\ chaos_mode = lstr[GenId])]_vars

\* C19: status changes only from healthy to unhealthy, from unhealthy to
\* recovering, from recovering to healthy, and to healthy by reset; the
\* runbook writes recovering over unhealthy only and healthy over recovering
\* only; and while status is recovering the incident is open and
\* runbook_running is true.
C19_StatusEdges ==
    /\ [][/\ status' # status =>
                \/ status = "healthy" /\ status' = "unhealthy"
                \/ status = "unhealthy" /\ status' = "recovering"
                \/ status = "recovering" /\ status' = "healthy"
                \/ At(ResetId, "idle") /\ pc'[ResetId] = "x_mode" /\ status' = "healthy"
          /\ \A i \in Calls :
                /\ (At(i, "r3_recovering") /\ pc'[i] # pc[i]) => status = "unhealthy"
                /\ (At(i, "r3_healthy") /\ pc'[i] # pc[i]) => status = "recovering"]_vars
    /\ [](status = "recovering" => (incident_started_at # None /\ runbook_running))

\* C20: a delayed_runbook thread enters run_runbook only for the incident its
\* own trigger_chaos call opened, never for a later one.
C20_OwnIncidentOnly ==
    [][\A i \in Calls :
          (At(i, "d_check2") /\ pc'[i] = "r_enter") => opener = i]_vars

====
